---- MODULE Spec2Model ----
(***************************************************************************)
(* Model of the LogsGonstr security slice of the portfolio site:           *)
(*   - src/src/utils/security-logger.ts : LogsGonstrSecurity (Event Log)   *)
(*   - src/unnamed/part_001             : GET /api/security-status         *)
(*   - src/src/middleware.ts            : onRequest (request interceptor)  *)
(*                                                                         *)
(* JavaScript strings that may be absent (header values, URL parts, the    *)
(* optional fields of a log entry) are modelled as the sequence of their   *)
(* comma-free segments: "a,b" is <<"a","b">>, "" is <<"">>.  null and      *)
(* undefined are the empty sequence, which no string equals.               *)
(***************************************************************************)
EXTENDS Integers, Sequences, FiniteSets, TLC

----------------------------------------------------------------------------
(* Bounds of the model                                                     *)

\* entries recorded after the initial backlog
MaxCalls == 2
\* clock ticks explored
MaxTime == 1
\* free slots left in the buffer by the largest initial backlog
Headroom == 1
\* size of the small initial backlog the queries are applied to
SmallBacklog == 5
\* log calls replayed on top of a backlog before the queries are applied
MaxReplay == 1

----------------------------------------------------------------------------
(* Program constants                                                       *)

\* security-logger.ts:18  private readonly maxLogs = 1000
maxLogs == 1000
\* security-logger.ts:100,104  limit = 50
DefaultLimit == 50
\* security-logger.ts:127  this.getRecentLogs(10)
ReportRecent == 10

Levels == {"INFO", "WARN", "ERROR", "CRITICAL"}

\* null / undefined
Null == << >>
Undefined == << >>
\* one-segment string
Str(s) == <<s>>

\* JavaScript truthiness of a string-or-null value: null, undefined and ""
\* are falsy.
Truthy(v) == v # << >> /\ v # <<"">>

\* a || b
Or(a, b) == IF Truthy(a) THEN a ELSE b

\* astro.config.mjs vite.define: __VERSION__, __BUILD_TIME__
VERSION == Str("1.0.0-LogsGonstr")
BUILD_TIME == Str("build-time")

\* security-logger.ts:141-161 (the names used below)
SECURITY_EVENTS == [ NORMAL_ACCESS     |-> "NORMAL_ACCESS",
                     SUSPICIOUS_ACCESS |-> "SUSPICIOUS_ACCESS",
                     XSS_ATTEMPT       |-> "XSS_ATTEMPT",
                     SYSTEM_ERROR      |-> "SYSTEM_ERROR",
                     HEALTH_CHECK      |-> "HEALTH_CHECK",
                     SECURITY_SCAN     |-> "SECURITY_SCAN" ]

----------------------------------------------------------------------------
(* Requests                                                                *)

\* A URL string, by its parts.  scheme = "" is a string with no scheme
\* (a relative reference such as "/api/x"), which new URL(s) rejects.
\* query is the decoded list of <<key, value>> pairs.
Url(scheme, host, path, query) ==
  [scheme |-> scheme, host |-> host, path |-> path, query |-> query]

\* new URL(s): TypeError for a string that is not an absolute URL.
URLThrows(u) == u.scheme = "" \/ u.host = ""

\* new URL(s).pathname: an empty path is "/".
Pathname(u) == IF u.path = "" THEN Str("/") ELSE Str(u.path)

\* URLSearchParams.get(name): the first value of that key, or null.
RECURSIVE SearchParamsGet(_, _)
SearchParamsGet(query, name) ==
  IF query = << >> THEN Null
  ELSE IF Head(query)[1] = name THEN Head(query)[2]
  ELSE SearchParamsGet(Tail(query), name)

\* Headers.get(name): the value, or null when the header is absent.
HeadersGet(headers, name) ==
  IF name \in DOMAIN headers THEN headers[name] ELSE Null

\* the request argument left out
NoRequest == [present |-> FALSE]

Request(url, headers) == [present |-> TRUE, url |-> url, headers |-> headers]

NoHeaders == [h \in {} |-> Null]

----------------------------------------------------------------------------
(* State                                                                   *)

VARIABLES
  logs,           \* LogsGonstrSecurity.logs: the retained entries, oldest first
  backlog,        \* entries recorded before the initial state (history variable)
  history,        \* entries recorded since, in recording order (history variable)
  now,            \* the clock read by new Date() / Date.now()
  windowDefined,  \* typeof window !== 'undefined' in this process
  result,         \* what the last operation returned (or that it threw)
  loaded,         \* the security-logger module has been evaluated
  instance,       \* LogsGonstrSecurity.instance: 0 while unset, else the
                  \* number of the object it holds
  constructed,    \* LogsGonstrSecurity objects constructed so far
  pc,             \* where each in-flight request stands
  executed        \* the requests whose handler has run, in the order it ran
                  \* (history variable)

\* the module-level state of security-logger.ts
moduleVars == <<loaded, instance, constructed>>

\* the requests in flight
flightVars == <<pc, executed>>

vars == <<logs, backlog, history, now, windowDefined, result, moduleVars, flightVars>>

----------------------------------------------------------------------------
(* LogsGonstrSecurity                                                      *)

\* new Date().toISOString(): the clock value; ISO-8601 strings of one era
\* order as the instants they denote.
ToISOString(t) == t

\* { ...details, buildVersion: __VERSION__ || ..., buildTime: __BUILD_TIME__ || ... }
MergeDetails(details, t) ==
  [k \in DOMAIN details \cup {"buildVersion", "buildTime"} |->
     IF k = "buildVersion" THEN Or(VERSION, Str("1.0.0-LogsGonstr"))
     ELSE IF k = "buildTime" THEN Or(BUILD_TIME, Str("now"))
     ELSE details[k]]

\* forwardedFor?.split(',')[0]
SplitFirst(v) == IF v = Null THEN Undefined ELSE Str(v[1])

\* extractIP(request)
extractIP(request) ==
  IF ~request.present THEN Undefined
  ELSE LET forwardedFor == HeadersGet(request.headers, "x-forwarded-for")
           realIP == HeadersGet(request.headers, "x-real-ip")
           vercelForwardedFor == HeadersGet(request.headers, "x-vercel-forwarded-for")
       IN Or(vercelForwardedFor, Or(realIP, Or(SplitFirst(forwardedFor), Undefined)))

\* The construction of logEntry throws exactly when new URL(request.url) does.
LogThrows(request) == request.present /\ URLThrows(request.url)

\* The object literal of log(), lines 30-42.
LogEntry(t, level, event, details, request) ==
  [ timestamp |-> ToISOString(t),
    level     |-> level,
    event     |-> event,
    details   |-> MergeDetails(details, t),
    ip        |-> extractIP(request),
    userAgent |-> IF request.present
                  THEN Or(HeadersGet(request.headers, "user-agent"), Undefined)
                  ELSE Undefined,
    endpoint  |-> IF request.present THEN Pathname(request.url) ELSE Undefined ]

\* A plausible slip: unshift instead of push, the newest entry goes first.
PushFront(arr, e) == <<e>> \o arr

\* A plausible slip: the eviction removes the two oldest entries.
ShiftTwo(arr) == IF Len(arr) < 2 THEN << >> ELSE Tail(Tail(arr))

\* Array.prototype.push / shift
Push(arr, e) == Append(arr, e)
Shift(arr) == IF arr = << >> THEN arr ELSE Tail(arr)

\* A plausible slip: the newest entry is dropped instead of the oldest.
PushAndTrimDropNewest(arr, e) ==
  LET pushed == Push(arr, e)
  IN IF Len(pushed) > maxLogs THEN SubSeq(pushed, 1, Len(pushed) - 1) ELSE pushed

\* A plausible slip: the eviction is missing.
PushNoTrim(arr, e) == Push(arr, e)

\* lines 45-48: push, then shift when over maxLogs
PushAndTrim(arr, e) ==
  LET pushed == Push(arr, e)
  IN IF Len(pushed) > maxLogs THEN Shift(pushed) ELSE pushed

\* A plausible slip: the alert is sent whatever the environment.
ShouldAlertAnywhere(level, hasWindow) == level = "CRITICAL"

\* line 68: level === 'CRITICAL' && typeof window !== 'undefined'
ShouldAlert(level, hasWindow) == level = "CRITICAL" /\ hasWindow

\* Array.prototype.slice(start) with an integer start: a negative start
\* counts from the end, and -0 is 0.
Slice(arr, start) ==
  LET len == Len(arr)
      k == IF start < 0 THEN (IF len + start > 0 THEN len + start ELSE 0)
           ELSE (IF start < len THEN start ELSE len)
  IN SubSeq(arr, k + 1, len)

\* Array.prototype.filter(log => log.level === level)
FilterLevel(arr, level) == SelectSeq(arr, LAMBDA log : log.level = level)

\* getRecentLogs(limit)
getRecentLogs(arr, limit) == Slice(arr, 0 - limit)

\* getLogsByLevel(level, limit)
getLogsByLevel(arr, level, limit) == Slice(FilterLevel(arr, level), 0 - limit)

\* getCriticalEvents()
getCriticalEvents(arr) == FilterLevel(arr, "CRITICAL")

\* An object used as a map is the sequence of its <<key, value>> pairs in
\* insertion order; a key that was never set has no pair.
HasKey(obj, key) == \E i \in 1..Len(obj) : obj[i][1] = key
KeyIndex(obj, key) == CHOOSE i \in 1..Len(obj) : obj[i][1] = key
Lookup(obj, key) == obj[KeyIndex(obj, key)][2]
Keys(obj) == {obj[i][1] : i \in 1..Len(obj)}

\* A plausible slip: the previous count is not read.
CountStepOverwrite(acc, log) ==
  IF HasKey(acc, log.level)
  THEN [acc EXCEPT ![KeyIndex(acc, log.level)] = <<log.level, 1>>]
  ELSE Append(acc, <<log.level, 1>>)

\* acc[log.level] = (acc[log.level] || 0) + 1
CountStep(acc, log) ==
  IF HasKey(acc, log.level)
  THEN [acc EXCEPT ![KeyIndex(acc, log.level)] = <<log.level, @[2] + 1>>]
  ELSE Append(acc, <<log.level, 1>>)

\* The left-to-right fold of CountStep over arr[lo..hi], starting from acc.
\* The range is folded half by half, first half first; the guard on the
\* intermediate value has TLC compute it before the second half is entered.
RECURSIVE ReduceRange(_, _, _, _)
ReduceRange(arr, lo, hi, acc) ==
  IF lo > hi THEN acc
  ELSE IF lo = hi THEN CountStep(acc, arr[lo])
  ELSE LET mid == (lo + hi) \div 2
           left == ReduceRange(arr, lo, mid, acc)
       IN CASE Len(left) >= 0 -> ReduceRange(arr, mid + 1, hi, left)

\* this.logs.reduce(..., {})
Reduce(arr, acc) == ReduceRange(arr, 1, Len(arr), acc)

\* {} as Record<level, number>
EmptySummary == << >>

\* A plausible slip: the two ends of the time range taken from the wrong
\* ends of the buffer.
generateSecurityReportNewestFirst(arr, t) ==
  [ summary        |-> Reduce(arr, EmptySummary),
    recentEvents   |-> getRecentLogs(arr, ReportRecent),
    criticalEvents |-> getCriticalEvents(arr),
    timeRange      |->
      [ from |-> IF arr # << >> THEN arr[Len(arr)].timestamp ELSE ToISOString(t),
        to   |-> IF arr # << >> THEN arr[1].timestamp ELSE ToISOString(t) ] ]

\* generateSecurityReport()
generateSecurityReport(arr, t) ==
  [ summary        |-> Reduce(arr, EmptySummary),
    recentEvents   |-> getRecentLogs(arr, ReportRecent),
    criticalEvents |-> getCriticalEvents(arr),
    timeRange      |->
      [ from |-> IF arr # << >> THEN arr[1].timestamp ELSE ToISOString(t),
        to   |-> IF arr # << >> THEN arr[Len(arr)].timestamp ELSE ToISOString(t) ] ]

----------------------------------------------------------------------------
(* Inputs explored                                                         *)

StatusUrl(query) == Url("https", "gonstr.dev", "/api/security-status", query)

\* a request as the framework delivers it
ReqBrowser ==
  Request(StatusUrl(<< >>),
          [h \in {"user-agent", "x-forwarded-for"} |->
             IF h = "user-agent" THEN Str("Mozilla/5.0")
             ELSE <<"203.0.113.7", "10.0.0.1">>])

\* a request whose headers carry nothing usable
ReqOddHeaders ==
  Request(Url("https", "gonstr.dev", "", << >>),
          [h \in {"user-agent", "x-forwarded-for", "x-real-ip"} |->
             IF h = "x-forwarded-for" THEN <<"", "unknown">> ELSE Str("")])

\* a request-like object whose url is not an absolute URL
ReqBadUrl ==
  Request(Url("", "", "/api/security-status", << >>),
          [h \in {"x-vercel-forwarded-for"} |-> Str("198.51.100.9")])

NoDetails == [k \in {} |-> Str("")]

LogCall(level, event, details, request) ==
  [level |-> level, event |-> event, details |-> details, request |-> request]

LogCalls ==
  { LogCall("ERROR", SECURITY_EVENTS.SYSTEM_ERROR,
            [k \in {"buildVersion"} |-> Str("spoofed")], ReqOddHeaders),
    LogCall("CRITICAL", SECURITY_EVENTS.XSS_ATTEMPT, NoDetails, NoRequest),
    LogCall("CRITICAL", SECURITY_EVENTS.XSS_ATTEMPT, NoDetails, ReqBadUrl),
    LogCall("WARN", SECURITY_EVENTS.SUSPICIOUS_ACCESS,
            [k \in {"reason"} |-> Str("probe")], ReqBadUrl) }

Limits == {0, 1, DefaultLimit, maxLogs + 1}

\* The level of the i-th entry of an initial backlog.
LevelAt(i) ==
  CASE i % 4 = 1 -> "INFO"
    [] i % 4 = 2 -> "WARN"
    [] i % 4 = 3 -> "ERROR"
    [] OTHER     -> "CRITICAL"

\* The buffer n health-check log calls at time 0 leave behind (n <= maxLogs).
Backlog(n) ==
  [i \in 1..n |-> LogEntry(0, LevelAt(i), SECURITY_EVENTS.HEALTH_CHECK,
                           NoDetails, NoRequest)]

BacklogSizes == {0, maxLogs - Headroom}

\* What the log calls cs, made from time t on, leave in the buffer arr
\* (Replay) and append to the history (ReplayAll).
RECURSIVE Replay(_, _, _)
Replay(arr, cs, t) ==
  IF cs = << >> THEN arr
  ELSE Replay(PushAndTrim(arr, LogEntry(t, Head(cs).level, Head(cs).event,
                                        Head(cs).details, Head(cs).request)),
              Tail(cs), t + 1)

RECURSIVE ReplayAll(_, _, _)
ReplayAll(arr, cs, t) ==
  IF cs = << >> THEN arr
  ELSE ReplayAll(Append(arr, LogEntry(t, Head(cs).level, Head(cs).event,
                                      Head(cs).details, Head(cs).request)),
                 Tail(cs), t + 1)

\* Sequences of at most n log calls that return normally.
OkCalls == {c \in LogCalls : ~LogThrows(c.request)}
CallSeqs(n) == UNION {[1..k -> OkCalls] : k \in 0..n}

\* Buffer sizes the queries are applied to before the replayed calls.
QueryBacklogSizes == {0, SmallBacklog, maxLogs - Headroom}

----------------------------------------------------------------------------
(* Operations                                                              *)

Init ==
  /\ backlog \in BacklogSizes
  /\ logs = Backlog(backlog)
  /\ history = << >>
  /\ now = 0
  /\ windowDefined \in BOOLEAN
  /\ result = [op |-> "none"]
  /\ loaded = TRUE
  /\ instance = 1
  /\ constructed = 1
  /\ pc = << >>
  /\ executed = << >>

\* The clock advances.
Tick ==
  /\ now < MaxTime
  /\ now' = now + 1
  /\ UNCHANGED <<logs, backlog, history, windowDefined, result, moduleVars, flightVars>>

\* sendCriticalAlert(log): the body is inside try/catch, so a failure of the
\* dispatch is logged and the returned promise still resolves.
sendCriticalAlert(fails) == IF fails THEN "failed-and-swallowed" ELSE "sent"

\* Whether the dispatch can fail is a choice only where a dispatch is made.
AlertOutcomes(c) ==
  IF ~LogThrows(c.request) /\ ShouldAlert(c.level, windowDefined)
  THEN BOOLEAN ELSE {FALSE}

\* LogsGonstr.log(level, event, details, request)
Log(c, alertFails) ==
  /\ IF LogThrows(c.request)
     THEN /\ result' = [op |-> "log", level |-> c.level, threw |-> TRUE,
                        dispatched |-> 0, alert |-> "none"]
          /\ UNCHANGED <<logs, history>>
     ELSE LET logEntry == LogEntry(now, c.level, c.event, c.details, c.request)
              alerting == ShouldAlert(c.level, windowDefined)
          IN /\ Len(history) < MaxCalls
             /\ logs' = PushAndTrim(logs, logEntry)
             /\ history' = Append(history, logEntry)
             /\ result' = [op |-> "log", level |-> c.level, threw |-> FALSE,
                           entry |-> logEntry,
                           dispatched |-> IF alerting THEN 1 ELSE 0,
                           alert |-> IF alerting THEN sendCriticalAlert(alertFails)
                                     ELSE "none"]
  /\ UNCHANGED <<backlog, now, windowDefined, moduleVars, flightVars>>

\* LogsGonstr.getRecentLogs(limit)
GetRecentLogs(limit) ==
  /\ result' = [op |-> "getRecentLogs", limit |-> limit,
                value |-> getRecentLogs(logs, limit)]
  /\ UNCHANGED <<logs, backlog, history, now, windowDefined, moduleVars, flightVars>>

\* LogsGonstr.getLogsByLevel(level, limit)
GetLogsByLevel(level, limit) ==
  /\ result' = [op |-> "getLogsByLevel", level |-> level, limit |-> limit,
                value |-> getLogsByLevel(logs, level, limit)]
  /\ UNCHANGED <<logs, backlog, history, now, windowDefined, moduleVars, flightVars>>

\* LogsGonstr.getCriticalEvents()
GetCriticalEvents ==
  /\ result' = [op |-> "getCriticalEvents", value |-> getCriticalEvents(logs)]
  /\ UNCHANGED <<logs, backlog, history, now, windowDefined, moduleVars, flightVars>>

\* LogsGonstr.generateSecurityReport()
GenerateSecurityReport ==
  /\ result' = [op |-> "generateSecurityReport", at |-> now,
                value |-> generateSecurityReport(logs, now)]
  /\ UNCHANGED <<logs, backlog, history, now, windowDefined, moduleVars, flightVars>>

----------------------------------------------------------------------------
(* GET /api/security-status                                                *)

\* part_001:9
ADMIN_TOKEN == Str("LogsGonstr-Admin-2026")

\* SecurityLog: ip?, userAgent?, endpoint?
OptionalFields == {"ip", "userAgent", "endpoint"}

\* JSON.stringify of a log entry: properties whose value is undefined are
\* left out.
JsonEntry(e) ==
  [f \in {g \in DOMAIN e : g \notin OptionalFields \/ e[g] # Undefined} |-> e[f]]

JsonEntries(arr) == [i \in 1..Len(arr) |-> JsonEntry(arr[i])]

\* The object handed to JSON.stringify, lines 34-46: the fixed envelope, then
\* the spread of the report.
StatusBody(report, t) ==
  [ status         |-> "secure",
    timestamp      |-> ToISOString(t),
    version        |-> "1.0.0-LogsGonstr",
    environment    |-> "production",
    security       |-> [csp |-> "enabled", headers |-> "secured",
                        middleware |-> "active", monitoring |-> "active"],
    summary        |-> report.summary,
    recentEvents   |-> JsonEntries(report.recentEvents),
    criticalEvents |-> JsonEntries(report.criticalEvents),
    timeRange      |-> report.timeRange ]

\* A plausible slip: an absent token is let through.
TokenRejectedUnlessAbsent(token) == token # ADMIN_TOKEN /\ token # Null

\* A plausible addition: a lockout, every token is refused once an attempt
\* with a wrong token has been recorded.
TokenRejectedAfterFailure(token) ==
  \/ token # ADMIN_TOKEN
  \/ \E i \in 1..Len(history) : history[i].event = SECURITY_EVENTS.SUSPICIOUS_ACCESS

\* line 11: token !== ADMIN_TOKEN
TokenRejected(token) == token # ADMIN_TOKEN

Unauthorized ==
  [ status  |-> 401,
    body    |-> "Unauthorized",
    headers |-> [h \in {"content-type", "x-security-alert"} |->
                   IF h = "content-type" THEN "text/plain" ELSE "Invalid Token"] ]

StatusOk(body) ==
  [ status  |-> 200,
    body    |-> body,
    headers |-> [h \in {"content-type", "x-security-level", "x-logsgonstr-version"} |->
                   CASE h = "content-type" -> "application/json"
                     [] h = "x-security-level" -> "high"
                     [] OTHER -> "1.0.0" ] ]

\* The requests the framework hands to the route: absolute URLs, with the
\* query strings below.
TokenQueries ==
  { << >>,
    << <<"token", ADMIN_TOKEN>> >>,
    << <<"token", Str("logsgonstr-admin-2026")>> >>,
    << <<"Token", ADMIN_TOKEN>> >>,
    << <<"token", Str("guess")>>, <<"token", ADMIN_TOKEN>> >> }

StatusRequest(query) == Request(StatusUrl(query), ReqBrowser.headers)

ClientAddresses == {Str("203.0.113.7")}

\* A plausible slip: the report is taken before the request is recorded.
ReportBeforeLog(arr, logEntry, t) == generateSecurityReport(arr, t)

\* lines 27-32: LogsGonstr.log('INFO', ...) and then
\* LogsGonstr.generateSecurityReport(), on the buffer the log call left.
ReportAfterLog(arr, logEntry, t) ==
  generateSecurityReport(PushAndTrim(arr, logEntry), t)

\* The body of GET({ request, clientAddress }): an async function with no
\* await, so it runs from its call to its return in one step.
GETBody(request, clientAddress) ==
  /\ ~URLThrows(request.url)
  /\ Len(history) < MaxCalls
  /\ LET token == SearchParamsGet(request.url.query, "token")
     IN IF TokenRejected(token)
        THEN LET logEntry ==
                   LogEntry(now, "WARN", SECURITY_EVENTS.SUSPICIOUS_ACCESS,
                            [k \in {"reason", "ip", "endpoint"} |->
                               CASE k = "reason" -> Str("Invalid admin token attempt")
                                 [] k = "ip" -> clientAddress
                                 [] OTHER -> Str("/api/security-status")],
                            request)
             IN /\ logs' = PushAndTrim(logs, logEntry)
                /\ history' = Append(history, logEntry)
                /\ result' = [op |-> "GET", token |-> token, entry |-> logEntry,
                              dispatched |->
                                IF ShouldAlert("WARN", windowDefined) THEN 1 ELSE 0,
                              response |-> Unauthorized]
        ELSE LET logEntry ==
                   LogEntry(now, "INFO", SECURITY_EVENTS.SECURITY_SCAN,
                            [k \in {"action", "admin"} |->
                               IF k = "action" THEN Str("Security status requested")
                               ELSE Str("true")],
                            request)
                 logged == PushAndTrim(logs, logEntry)
                 report == ReportAfterLog(logs, logEntry, now)
             IN /\ logs' = logged
                /\ history' = Append(history, logEntry)
                /\ result' = [op |-> "GET", token |-> token, entry |-> logEntry,
                              dispatched |->
                                IF ShouldAlert("INFO", windowDefined) THEN 1 ELSE 0,
                              response |-> StatusOk(StatusBody(report, now))]
  /\ UNCHANGED <<backlog, now, windowDefined, moduleVars>>

\* GET({ request, clientAddress })
GET(request, clientAddress) ==
  /\ GETBody(request, clientAddress)
  /\ UNCHANGED flightVars

\* Event Log under record calls, the status endpoint, the clock and the report.
Next ==
  \/ Tick
  \/ \E c \in LogCalls : \E alertFails \in AlertOutcomes(c) : Log(c, alertFails)
  \/ GenerateSecurityReport
  \/ \E query \in TokenQueries, clientAddress \in ClientAddresses :
       GET(StatusRequest(query), clientAddress)

Spec == Init /\ [][Next]_vars

\* The queries, applied to buffers that record calls leave behind.
InitQueries ==
  /\ \E n \in QueryBacklogSizes, cs \in CallSeqs(MaxReplay) :
       /\ backlog = n
       /\ logs = Replay(Backlog(n), cs, 1)
       /\ history = ReplayAll(<< >>, cs, 1)
       /\ now = Len(cs)
  /\ windowDefined = FALSE
  /\ result = [op |-> "none"]
  /\ loaded = TRUE
  /\ instance = 1
  /\ constructed = 1
  /\ pc = << >>
  /\ executed = << >>

NextQueries ==
  \/ \E limit \in Limits : GetRecentLogs(limit)
  \/ \E level \in Levels, limit \in Limits : GetLogsByLevel(level, limit)
  \/ GetCriticalEvents

SpecQueries == InitQueries /\ [][NextQueries]_vars

----------------------------------------------------------------------------
(* onRequest (middleware.ts)                                               *)

\* Header names are written as Headers stores them, in lower case.

\* lines 16-25
CSP ==
  "default-src 'self'; img-src 'self' https: data: blob:; style-src 'self' 'unsafe-inline' fonts.googleapis.com; font-src 'self' fonts.gstatic.com; script-src 'self' 'unsafe-inline'; connect-src 'self' vercel.live; frame-ancestors 'none'; base-uri 'self'"

\* lines 32-34
PermissionsPolicy ==
  "geolocation=(), microphone=(), camera=(), payment=(), usb=(), magnetometer=(), gyroscope=()"

\* The response.headers.set calls of lines 16-38, in order.
SecurityHeaders(t) ==
  << <<"content-security-policy", CSP>>,
     <<"x-content-type-options", "nosniff">>,
     <<"x-frame-options", "DENY">>,
     <<"x-xss-protection", "1; mode=block">>,
     <<"referrer-policy", "strict-origin-when-cross-origin">>,
     <<"permissions-policy", PermissionsPolicy>>,
     <<"x-powered-by-logsgonstr", "Secure-Portfolio-v1.0">>,
     <<"x-security-scan", ToString(t)>> >>

\* Headers.set(name, value) on headers that accept it.
HeadersSet(headers, name, value) ==
  [h \in DOMAIN headers \cup {name} |-> IF h = name THEN value ELSE headers[h]]

RECURSIVE SetAll(_, _)
SetAll(headers, sets) ==
  IF sets = << >> THEN headers
  ELSE SetAll(HeadersSet(headers, Head(sets)[1], Head(sets)[2]), Tail(sets))

\* lines 52-60
ErrorResponse(t) ==
  [ status  |-> 500,
    body    |-> "Internal Server Error",
    headers |-> [h \in {"content-type", "x-error-id", "x-content-type-options",
                        "x-frame-options"} |->
                   CASE h = "content-type" -> "text/plain"
                     [] h = "x-error-id" -> "LogsGonstr-" \o ToString(t)
                     [] h = "x-content-type-options" -> "nosniff"
                     [] OTHER -> "DENY" ] ]

\* A plausible slip: the failure path reapplies the full header set.
HandleErrorFullHeaders(t) ==
  [ErrorResponse(t) EXCEPT !.headers = SetAll(@, SecurityHeaders(t))]

\* The catch block, lines 47-63.
HandleError(t) == ErrorResponse(t)

\* A plausible slip: the frame and sniffing headers are left as the
\* downstream handler set them.
DecorateKeepExisting(response, t) ==
  [response EXCEPT !.headers =
     [h \in DOMAIN @ \cup DOMAIN SetAll(NoHeaders, SecurityHeaders(t)) |->
        IF h \in DOMAIN @ THEN @[h] ELSE SetAll(NoHeaders, SecurityHeaders(t))[h]]]

\* The try block after next() has returned, lines 16-45: the same response
\* object, its headers set.
Decorate(response, t) ==
  [response EXCEPT !.headers = SetAll(@, SecurityHeaders(t))]

\* What next() does: it throws (or its promise rejects), or it returns a
\* response whose headers either accept changes or are immutable
\* (Response.redirect(), a response passed on from fetch()).
DownstreamStatuses == {200, 301, 302, 404, 500}

DownstreamHeaders ==
  { NoHeaders,
    [h \in {"content-type"} |-> "text/html"],
    [h \in {"x-frame-options", "content-security-policy"} |->
       IF h = "x-frame-options" THEN "SAMEORIGIN" ELSE "default-src *"],
    [h \in {"location", "x-security-scan"} |->
       IF h = "location" THEN "/blog" ELSE "off"] }

Downstreams ==
  {[kind |-> "throws"]}
  \cup [kind : {"response"}, status : DownstreamStatuses,
        headers : DownstreamHeaders, immutable : BOOLEAN]

\* A plausible slip: the headers are set after the try/catch, so a set that
\* throws leaves onRequest as an exception.
InterceptInjectOutsideTry(d, t) ==
  IF d.kind = "throws" THEN [threw |-> FALSE, response |-> HandleError(t)]
  ELSE IF d.immutable THEN [threw |-> TRUE]
  ELSE [threw |-> FALSE,
        response |-> Decorate([status |-> d.status, body |-> "downstream body",
                               headers |-> d.headers], t)]

\* The try/catch of lines 12-63: await next() and the headers.set calls are
\* both inside the try, so a throw of either reaches the catch block, which
\* returns the error response.
Intercept(d, t) ==
  IF d.kind = "throws" THEN [threw |-> FALSE, response |-> HandleError(t)]
  ELSE IF d.immutable THEN [threw |-> FALSE, response |-> HandleError(t)]
  ELSE [threw |-> FALSE,
        response |-> Decorate([status |-> d.status, body |-> "downstream body",
                               headers |-> d.headers], t)]

\* onRequest(context, next)
OnRequest(d) ==
  /\ result' =
       LET outcome == Intercept(d, now)
       IN IF outcome.threw
          THEN [op |-> "onRequest", downstream |-> d, at |-> now, threw |-> TRUE]
          ELSE [op |-> "onRequest", downstream |-> d, at |-> now, threw |-> FALSE,
                response |-> outcome.response]
  /\ UNCHANGED <<logs, backlog, history, now, windowDefined, moduleVars, flightVars>>

InitMw ==
  /\ backlog = 0
  /\ logs = << >>
  /\ history = << >>
  /\ now = 0
  /\ windowDefined = FALSE
  /\ result = [op |-> "none"]
  /\ loaded = FALSE
  /\ instance = 0
  /\ constructed = 0
  /\ pc = << >>
  /\ executed = << >>

NextMw ==
  \/ Tick
  \/ \E d \in Downstreams : OnRequest(d)

SpecMw == InitMw /\ [][NextMw]_vars

----------------------------------------------------------------------------
(* The module and its single instance (security-logger.ts:16-27, 138)      *)

\* A plausible slip: the check of the static field is missing, so every
\* call constructs.
getInstanceAlwaysNew(inst, count) ==
  [instance |-> count + 1, constructed |-> count + 1]

\* getInstance(): the static field and the count of objects constructed,
\* after the call; the call returns the field.
getInstance(inst, count) ==
  IF inst = 0
  THEN [instance |-> count + 1, constructed |-> count + 1]
  ELSE [instance |-> inst, constructed |-> count]

\* The first import of security-logger.ts evaluates the module: the class is
\* defined with its static field unset, then line 138 calls getInstance()
\* for the exported LogsGonstr.
LoadModule ==
  /\ ~loaded
  /\ loaded' = TRUE
  /\ instance' = getInstance(0, constructed).instance
  /\ constructed' = getInstance(0, constructed).constructed
  /\ UNCHANGED <<logs, backlog, history, now, windowDefined, result, flightVars>>

\* LogsGonstrSecurity.getInstance(), called by code that imported the module.
GetInstance ==
  /\ loaded
  /\ instance' = getInstance(instance, constructed).instance
  /\ constructed' = getInstance(instance, constructed).constructed
  /\ result' = [op |-> "getInstance", value |-> instance']
  /\ UNCHANGED <<logs, backlog, history, now, windowDefined, loaded, flightVars>>

\* A use of the exported LogsGonstr: LogsGonstr.log(...)
UseLogsGonstr(c, alertFails) ==
  /\ loaded
  /\ Log(c, alertFails)

InitModule ==
  /\ backlog = 0
  /\ logs = << >>
  /\ history = << >>
  /\ now = 0
  /\ windowDefined \in BOOLEAN
  /\ result = [op |-> "none"]
  /\ loaded = FALSE
  /\ instance = 0
  /\ constructed = 0
  /\ pc = << >>
  /\ executed = << >>

NextModule ==
  \/ Tick
  \/ LoadModule
  \/ GetInstance
  \/ \E c \in LogCalls : \E alertFails \in AlertOutcomes(c) :
       UseLogsGonstr(c, alertFails)

SpecModule == InitModule /\ [][NextModule]_vars

----------------------------------------------------------------------------
(* Requests in flight                                                      *)

\* The runtime runs one callback at a time and switches between requests
\* only where one awaits: onRequest awaits next() (middleware.ts:13); GET
\* and log() contain no await, so each runs from call to return in one step.

Requests == 1..MaxCalls

ClientAddressOf(r) == Str("203.0.113." \o ToString(r))

FlightQueries == { << >>, << <<"token", ADMIN_TOKEN>> >> }

FlightRequest(r, query) ==
  Request(StatusUrl(query),
          [h \in {"user-agent", "x-forwarded-for"} |->
             IF h = "user-agent" THEN Str("Mozilla/5.0") ELSE ClientAddressOf(r)])

\* onRequest up to await next(), lines 5-13: the request is now in flight.
Enter(r, query) ==
  /\ pc[r].step = "new"
  /\ pc' = [pc EXCEPT ![r] = [step |-> "awaiting",
                              request |-> FlightRequest(r, query)]]
  /\ UNCHANGED <<logs, backlog, history, now, windowDefined, result,
                 moduleVars, executed>>

\* The route handler the continuation runs for this request.
Handle(r) ==
  /\ pc[r].step = "awaiting"
  /\ GETBody(pc[r].request, ClientAddressOf(r))
  /\ executed' = Append(executed, r)
  /\ pc' = [pc EXCEPT ![r] = [step |-> "handled",
                              response |-> result'.response]]

\* onRequest resumed after await next(), lines 16-45.
Exit(r) ==
  /\ pc[r].step = "handled"
  /\ pc' = [pc EXCEPT ![r] = [step |-> "done",
                              response |-> Decorate(pc[r].response, now)]]
  /\ UNCHANGED <<logs, backlog, history, now, windowDefined, result,
                 moduleVars, executed>>

InitFlight ==
  /\ backlog = maxLogs - Headroom
  /\ logs = Backlog(backlog)
  /\ history = << >>
  /\ now = 0
  /\ windowDefined = FALSE
  /\ result = [op |-> "none"]
  /\ loaded = TRUE
  /\ instance = 1
  /\ constructed = 1
  /\ pc = [r \in Requests |-> [step |-> "new"]]
  /\ executed = << >>

NextFlight ==
  \/ Tick
  \/ \E r \in Requests : \E query \in FlightQueries : Enter(r, query)
  \/ \E r \in Requests : Handle(r)
  \/ \E r \in Requests : Exit(r)

SpecFlight == InitFlight /\ [][NextFlight]_vars

----------------------------------------------------------------------------
(* The status endpoint alone, request after request                        *)

InitStatus ==
  /\ backlog \in BacklogSizes
  /\ logs = Backlog(backlog)
  /\ history = << >>
  /\ now = 0
  /\ windowDefined \in BOOLEAN
  /\ result = [op |-> "none"]
  /\ loaded = TRUE
  /\ instance = 1
  /\ constructed = 1
  /\ pc = << >>
  /\ executed = << >>

NextStatus ==
  \/ Tick
  \/ \E query \in TokenQueries, clientAddress \in ClientAddresses :
       GET(StatusRequest(query), clientAddress)

SpecStatus == InitStatus /\ [][NextStatus]_vars

----------------------------------------------------------------------------
(* Every operation of the Event Log, on one buffer                         *)

InitFrame ==
  /\ backlog = maxLogs - Headroom
  /\ logs = Backlog(backlog)
  /\ history = << >>
  /\ now = 0
  /\ windowDefined = FALSE
  /\ result = [op |-> "none"]
  /\ loaded = TRUE
  /\ instance = 1
  /\ constructed = 1
  /\ pc = << >>
  /\ executed = << >>

NextFrame ==
  \/ \E c \in LogCalls : \E alertFails \in AlertOutcomes(c) : Log(c, alertFails)
  \/ \E limit \in Limits : GetRecentLogs(limit)
  \/ \E level \in Levels, limit \in Limits : GetLogsByLevel(level, limit)
  \/ GetCriticalEvents
  \/ GenerateSecurityReport

SpecFrame == InitFrame /\ [][NextFrame]_vars

----------------------------------------------------------------------------
(* Properties                                                              *)

\* Every entry recorded so far, in recording order.
AllRecorded == Backlog(backlog) \o history

\* The last n elements of seq (all of it when it has no more than n).
LastN(seq, n) ==
  IF Len(seq) > n THEN SubSeq(seq, Len(seq) - n + 1, Len(seq)) ELSE seq

Min(a, b) == IF a < b THEN a ELSE b

CountOf(arr, level) == Len(SelectSeq(arr, LAMBDA e : e.level = level))

\* C1: after any sequence of record calls the buffer is the last 1000
\* recorded events in recording order, and all of them when no more than
\* 1000 were recorded.
C1_RetainsMostRecent == logs = LastN(AllRecorded, maxLogs)

\* C1 witness: more than 1000 events were recorded and the oldest were evicted.
C1_Overflowed ==
  /\ Len(AllRecorded) > maxLogs
  /\ history # << >>
  /\ logs[Len(logs)] = history[Len(history)]
  /\ logs[1] = AllRecorded[Len(AllRecorded) - maxLogs + 1]

C3_RecentAtMostLimit ==
  result.op = "getRecentLogs" =>
    /\ Len(result.value) <= Min(result.limit, Len(logs))
    /\ result.value = LastN(logs, result.limit)

\* C4 (as claimed): byServerity(level, n) returns exactly the last n stored
\* events of that level, in insertion order, for every n >= 0.
C4_ByLevelLastN ==
  result.op = "getLogsByLevel" =>
    /\ \A i \in 1..Len(result.value) : result.value[i].level = result.level
    /\ result.value =
         LastN(SelectSeq(logs, LAMBDA e : e.level = result.level), result.limit)

\* C5: the summary of report() counts, per severity, the events retained
\* now: the counts add up to the stored count, which is at most 1000.
C5_SummaryCountsRetained ==
  result.op = "generateSecurityReport" =>
    LET summary == result.value.summary
        count(l) == IF HasKey(summary, l) THEN Lookup(summary, l) ELSE 0
    IN /\ Keys(summary) \subseteq Levels
       /\ Cardinality(Keys(summary)) = Len(summary)
       /\ \A l \in Levels : count(l) = CountOf(logs, l)
       /\ count("INFO") + count("WARN") + count("ERROR") + count("CRITICAL")
            = Len(logs)
       /\ Len(logs) <= maxLogs

\* C5 witness: a report taken after events were evicted, whose counts add up
\* to less than the number of record calls.
C5_ReportAfterEviction ==
  /\ result.op = "generateSecurityReport"
  /\ backlog + Len(history) > maxLogs
  /\ history # << >>
  /\ Len(result.value.summary) = 4

\* C6 (as claimed): whenever next() returns a response, the response handed
\* back keeps its status and carries nine security headers, each with a
\* fixed documented value.
FixedSecurityHeaders == SubSeq(SecurityHeaders(0), 1, 7)

C6_NineFixedHeaders ==
  (result.op = "onRequest" /\ result.downstream.kind = "response") =>
    /\ result.response.status = result.downstream.status
    /\ \A i \in 1..Len(FixedSecurityHeaders) :
         /\ FixedSecurityHeaders[i][1] \in DOMAIN result.response.headers
         /\ result.response.headers[FixedSecurityHeaders[i][1]]
              = FixedSecurityHeaders[i][2]
    /\ "x-security-scan" \in DOMAIN result.response.headers
    /\ \E S \in SUBSET (DOMAIN result.response.headers) :
         /\ Cardinality(S) = 9
         /\ S \subseteq {SecurityHeaders(0)[i][1] : i \in 1..Len(SecurityHeaders(0))}

\* C6 (amended): whenever next() returns a response, the interceptor hands
\* back either that response, status and body kept, carrying the eight
\* security headers (seven with fixed values, x-security-scan with the time
\* of the request) and every other header as it was, or, when the headers of
\* the response cannot be changed, the generic 500 response.
C6_EightHeadersOrGeneric500 ==
  (result.op = "onRequest" /\ result.downstream.kind = "response") =>
    IF result.downstream.immutable
    THEN result.response = ErrorResponse(result.at)
    ELSE /\ result.response.status = result.downstream.status
         /\ result.response.body = "downstream body"
         /\ \A i \in 1..Len(FixedSecurityHeaders) :
              /\ FixedSecurityHeaders[i][1] \in DOMAIN result.response.headers
              /\ result.response.headers[FixedSecurityHeaders[i][1]]
                   = FixedSecurityHeaders[i][2]
         /\ "x-security-scan" \in DOMAIN result.response.headers
         /\ result.response.headers["x-security-scan"] = ToString(result.at)
         /\ Cardinality({SecurityHeaders(0)[i][1] : i \in 1..Len(SecurityHeaders(0))}
                          \cap DOMAIN result.response.headers) = 8
         /\ \A h \in DOMAIN result.downstream.headers :
              /\ h \in DOMAIN result.response.headers
              /\ h \notin {SecurityHeaders(0)[i][1] : i \in 1..Len(SecurityHeaders(0))}
                   => result.response.headers[h] = result.downstream.headers[h]

\* C6 witness: a response that already set two of the security headers
\* differently came back with the interceptor's values, after the clock
\* had advanced.
C6_DecoratedOverExisting ==
  /\ result.op = "onRequest"
  /\ result.downstream.kind = "response"
  /\ ~result.downstream.immutable
  /\ "x-frame-options" \in DOMAIN result.downstream.headers
  /\ result.downstream.headers["x-frame-options"] = "SAMEORIGIN"
  /\ result.response.headers["x-frame-options"] = "DENY"
  /\ result.at > 0

\* C7: whenever next() throws, the interceptor returns status 500, body
\* "Internal Server Error" and exactly four headers: content-type text/plain,
\* x-error-id, x-content-type-options nosniff, x-frame-options DENY; none of
\* the other success-path headers is present.
C7_FailureResponse ==
  (result.op = "onRequest" /\ result.downstream.kind = "throws") =>
    /\ result.response.status = 500
    /\ result.response.body = "Internal Server Error"
    /\ DOMAIN result.response.headers =
         {"content-type", "x-error-id", "x-content-type-options", "x-frame-options"}
    /\ result.response.headers["content-type"] = "text/plain"
    /\ result.response.headers["x-error-id"] = "LogsGonstr-" \o ToString(result.at)
    /\ result.response.headers["x-content-type-options"] = "nosniff"
    /\ result.response.headers["x-frame-options"] = "DENY"
    /\ {"content-security-policy", "x-xss-protection", "referrer-policy",
        "permissions-policy", "x-powered-by-logsgonstr", "x-security-scan"}
         \cap DOMAIN result.response.headers = {}

\* C7 witness: next() threw after the clock had advanced.
C7_DownstreamThrew ==
  /\ result.op = "onRequest"
  /\ result.downstream.kind = "throws"
  /\ result.at > 0
  /\ result.response.status = 500

\* C8: a status request whose token equals the configured constant is
\* answered 200 with a JSON body that has a summary key; any other token,
\* an absent one included, is answered 401 "Unauthorized" with no report.
C8_TokenGate ==
  result.op = "GET" =>
    IF result.token = ADMIN_TOKEN
    THEN /\ result.response.status = 200
         /\ "summary" \in DOMAIN result.response.body
    ELSE /\ result.response.status = 401
         /\ result.response.body = "Unauthorized"

\* C8 witness: a request with no token parameter was answered 401.
C8_AbsentTokenRejected ==
  /\ result.op = "GET"
  /\ result.token = Null
  /\ result.response.status = 401

\* C9 (as claimed): every record call returns normally and leaves the new
\* event at the end of the buffer.
C9_LogNeverThrows ==
  result.op = "log" =>
    /\ ~result.threw
    /\ logs # << >>
    /\ logs[Len(logs)] = result.entry

\* C10 (as claimed): every record call of severity critical dispatches the
\* external alert exactly once, whatever the environment, and no other
\* record call does.
C10_CriticalAlwaysAlerts ==
  result.op = "log" =>
    result.dispatched = (IF result.level = "CRITICAL" THEN 1 ELSE 0)

\* C10 (amended): a record call dispatches the external alert exactly once
\* when its severity is critical, the process has a window object and the
\* event was built and appended; otherwise it dispatches nothing.  A failed
\* dispatch is swallowed: the call still returns normally with its event
\* recorded.
C10_AlertOnlyWithWindow ==
  /\ result.op = "log" =>
       /\ result.dispatched =
            (IF result.level = "CRITICAL" /\ windowDefined /\ ~result.threw
             THEN 1 ELSE 0)
       /\ result.dispatched = 1 => result.alert \in {"sent", "failed-and-swallowed"}
       /\ result.dispatched = 0 => result.alert = "none"
       /\ result.alert = "failed-and-swallowed" =>
            (~result.threw /\ logs[Len(logs)] = result.entry)
  /\ result.op = "GET" => result.dispatched = 0

\* C10 witness: in a process with a window object a critical record call
\* dispatched the alert, the dispatch failed and the call returned normally.
C10_CriticalDispatchFailed ==
  /\ windowDefined
  /\ result.op = "log"
  /\ result.level = "CRITICAL"
  /\ result.dispatched = 1
  /\ result.alert = "failed-and-swallowed"
  /\ ~result.threw

\* C11 (as claimed): at most one LogsGonstrSecurity object is ever
\* constructed, every access returns that object, and it is not constructed
\* before its first use.
C11_OneLazyInstance ==
  /\ constructed <= 1
  /\ result.op = "getInstance" => result.value = 1
  /\ constructed > 0 => result.op # "none"

\* C11 (amended): at most one LogsGonstrSecurity object is ever constructed
\* and every access returns that object; it is constructed when the module
\* is evaluated, before any use: from then on the static field holds it.
C11_OneInstanceFromLoad ==
  /\ constructed <= 1
  /\ result.op = "getInstance" => result.value = 1
  /\ loaded => (instance = 1 /\ constructed = 1)
  /\ ~loaded => (instance = 0 /\ constructed = 0 /\ result.op = "none")

\* C11 witness: after the exported instance recorded an event, getInstance()
\* returned the one object constructed.
C11_SameInstanceAfterUse ==
  /\ loaded
  /\ history # << >>
  /\ result.op = "getInstance"
  /\ result.value = 1
  /\ constructed = 1

\* C12: the time range of report() runs from the timestamp of the oldest
\* event still retained to the timestamp of the newest one, evictions
\* included; on an empty log both ends are the time of the call.
C12_TimeRangeSpansRetained ==
  result.op = "generateSecurityReport" =>
    LET timeRange == result.value.timeRange
        recorded == Len(AllRecorded)
        oldest == IF recorded > maxLogs THEN recorded - maxLogs + 1 ELSE 1
    IN IF recorded = 0
       THEN /\ timeRange.from = ToISOString(result.at)
            /\ timeRange.to = ToISOString(result.at)
       ELSE /\ timeRange.from = AllRecorded[oldest].timestamp
            /\ timeRange.to = AllRecorded[recorded].timestamp

\* C12 witness: a report taken after an eviction, over events recorded at
\* different times.
C12_RangeAfterEviction ==
  /\ result.op = "generateSecurityReport"
  /\ backlog + Len(history) > maxLogs
  /\ result.value.timeRange.from # result.value.timeRange.to
  /\ result.value.timeRange.to = history[Len(history)].timestamp

\* The events recorded since the start, the last one left out, that are
\* refused status requests.
EarlierRejections ==
  SelectSeq(SubSeq(history, 1, Len(history) - 1),
            LAMBDA e : e.event = SECURITY_EVENTS.SUSPICIOUS_ACCESS)

\* C13: the status endpoint has no rate limit and no lockout: after any
\* number of refused requests, a request with the right token is answered
\* 200 with the report, and one with a wrong token 401 as before.
C13_NoLockout ==
  (result.op = "GET" /\ EarlierRejections # << >>) =>
    /\ result.token = ADMIN_TOKEN =>
         /\ result.response.status = 200
         /\ result.response.body.status = "secure"
         /\ "summary" \in DOMAIN result.response.body
    /\ result.token # ADMIN_TOKEN => result.response = Unauthorized

\* C13 witness: a request with the right token answered 200 right after a
\* refused one.
C13_AcceptedAfterRejection ==
  /\ result.op = "GET"
  /\ EarlierRejections # << >>
  /\ result.token = ADMIN_TOKEN
  /\ result.response.status = 200

\* C14: each status request appends exactly one event, a warn
\* SUSPICIOUS_ACCESS one when the token does not match and an info
\* SECURITY_SCAN one when it does; on a match the event is recorded before
\* the report is taken, so the summary counts it and it is the last of
\* recentEvents.
C14_OneEventPerRequest ==
  [][(result'.op = "GET" /\ (result' # result \/ history' # history)) =>
       LET entry == result'.entry
           body == result'.response.body
       IN /\ history' = Append(history, entry)
          /\ logs' # << >>
          /\ logs'[Len(logs')] = entry
          /\ Len(logs') = IF Len(logs) < maxLogs THEN Len(logs) + 1 ELSE maxLogs
          /\ IF result'.token # ADMIN_TOKEN
             THEN /\ entry.level = "WARN"
                  /\ entry.event = SECURITY_EVENTS.SUSPICIOUS_ACCESS
                  /\ result'.response.status = 401
             ELSE /\ entry.level = "INFO"
                  /\ entry.event = SECURITY_EVENTS.SECURITY_SCAN
                  /\ result'.response.status = 200
                  /\ HasKey(body.summary, "INFO")
                  /\ Lookup(body.summary, "INFO") = CountOf(logs', "INFO")
                  /\ Lookup(body.summary, "INFO") = CountOf(logs, "INFO") + 1
                       - (IF Len(logs) = maxLogs /\ logs[1].level = "INFO"
                          THEN 1 ELSE 0)
                  /\ Len(body.recentEvents) > 0
                  /\ body.recentEvents[Len(body.recentEvents)] = JsonEntry(entry)
  ]_vars

\* C14 witness: a request with the right token answered from a full buffer;
\* the report's last recent event is the one the request recorded.
C14_ScanCountedInReport ==
  /\ result.op = "GET"
  /\ result.response.status = 200
  /\ backlog + Len(history) > maxLogs
  /\ result.entry.event = SECURITY_EVENTS.SECURITY_SCAN
  /\ result.response.body.recentEvents[ReportRecent] = JsonEntry(result.entry)

\* C15: with requests in flight interleaving where they await, the buffer
\* never holds more than 1000 events, no event is lost other than by the
\* eviction of the oldest, and the buffer is in the order in which the
\* record calls ran.
C15_InterleavedRecordsKeepOrder ==
  /\ Len(logs) <= maxLogs
  /\ logs = LastN(AllRecorded, maxLogs)
  /\ Len(history) = Len(executed)
  /\ \A i \in 1..Len(executed) : history[i].ip = ClientAddressOf(executed[i])
  /\ \A i, j \in 1..Len(executed) : executed[i] = executed[j] => i = j
  /\ \A r \in DOMAIN pc :
       (\E i \in 1..Len(executed) : executed[i] = r)
         <=> pc[r].step \in {"handled", "done"}

\* C15 witness: two requests both in flight, the second one's record call ran
\* first, and the buffer has overflowed.
C15_SecondRequestRecordedFirst ==
  /\ executed = <<2, 1>>
  /\ pc[1].step = "handled"
  /\ pc[2].step = "handled"
  /\ backlog + Len(history) > maxLogs

\* C16: the request interceptor never lets an exception out: it returns a
\* response in every case, and the generic 500 response both when the
\* continuation throws and when setting the headers on the returned response
\* throws; the downstream response is then discarded.
C16_NeverPropagates ==
  result.op = "onRequest" =>
    /\ ~result.threw
    /\ result.response.status \in DownstreamStatuses
    /\ (result.downstream.kind = "throws" \/ result.downstream.immutable) =>
         /\ result.response = ErrorResponse(result.at)
         /\ result.response.body # "downstream body"
         /\ DOMAIN result.response.headers =
              {"content-type", "x-error-id", "x-content-type-options",
               "x-frame-options"}

\* C16 witness: a redirect whose headers cannot be changed was answered with
\* the generic 500 response, its location header gone.
C16_ImmutableRedirectBecame500 ==
  /\ result.op = "onRequest"
  /\ ~result.threw
  /\ result.downstream.kind = "response"
  /\ result.downstream.immutable
  /\ result.downstream.status = 302
  /\ "location" \in DOMAIN result.downstream.headers
  /\ result.response.status = 500
  /\ "location" \notin DOMAIN result.response.headers

QueryOps ==
  {"getRecentLogs", "getLogsByLevel", "getCriticalEvents", "generateSecurityReport"}

\* C17: the buffer changes only through record calls and stored events are
\* never modified: a query leaves the buffer as it was, and a record call
\* appends one event at the end and removes at most one, the oldest, the
\* others staying as they were and in place.
C17_OnlyRecordChangesBuffer ==
  [][/\ result'.op \in QueryOps => (logs' = logs /\ history' = history)
     /\ logs' # logs =>
          /\ result'.op = "log"
          /\ ~result'.threw
          /\ history' = Append(history, result'.entry)
          /\ IF Len(logs) < maxLogs
             THEN logs' = Append(logs, result'.entry)
             ELSE logs' = Append(Tail(logs), result'.entry)
     /\ history' # history => logs' # logs
  ]_vars

\* C17 witness: a query answered after a record call evicted the oldest
\* event; the buffer is the one that call left.
C17_QueryAfterEviction ==
  /\ result.op = "getRecentLogs"
  /\ result.limit = 1
  /\ backlog + Len(history) > maxLogs
  /\ result.value = <<history[Len(history)]>>
  /\ logs = SubSeq(AllRecorded, Len(AllRecorded) - maxLogs + 1, Len(AllRecorded))

====
